---- MODULE Spec2Model ----
(***************************************************************************)
(* The WarRoom page of Verity-Nodes (frontend/src/app/page.tsx) and the    *)
(* drop zone that feeds it (FileDropZone.onDrop), as a state machine.      *)
(*                                                                         *)
(* JavaScript runs each handler to its next `await` without interruption,  *)
(* so one action is one such segment of handleFilesAccepted, one timer     *)
(* callback of animateProgress, or one step of the drop zone.  React       *)
(* applies the queued state setters of a segment in call order, so a       *)
(* segment's setters are the primed values of its action.                  *)
(*                                                                         *)
(* The progress value is a JavaScript double; the model keeps it in        *)
(* fixed point, Scale units to the percent, and divides towards zero.      *)
(* A timer of animateProgress runs its callback every 40 ms and every      *)
(* awaited delay lasts 150 ms or more, so a delay ends only after the      *)
(* timers that were live when it began have run; nothing else is assumed   *)
(* of the time an awaited call takes.                                      *)
(* Log timestamps and the free text of log details are left out; an entry  *)
(* is its session id, agent tag, action code and severity.                 *)
(* A response that makes a React state updater throw while rendering (an   *)
(* audit_id that is not a string together with findings_count 0, a         *)
(* non-numeric emissions figure) is outside the inputs that are drawn.     *)
(***************************************************************************)
EXTENDS Integers, Sequences, FiniteSets, TLC

\* ------------------------------------------------------------ bounds
\* Invocations of handleFilesAccepted in one run, files in one drop, steps
\* (of one callback or of BurstLen callbacks) taken by one timer, and
\* departures from the nominal run (see faults).
MaxSessions == 2
MaxFiles == 1
MaxTimerFires == 1
MaxFaults == 1
\* Invocations in the runs of SpecEmpty.
EmptyRunSessions == 1
\* Invocations in the runs of SpecPersist, and the calls of logAuditEvent
\* that are followed at a time.
PersistSessions == 1
MaxPersist == 3
\* Invocations in the runs of SpecFeed.
FeedSessions == 1
\* Invocations, files and departures in the runs of FairSpec.
FairSessions == 1
FairFiles == 2
FairFaults == 4
\* Units of the progress value to the percent.
Scale == 1000

\* ------------------------------------------------- program constants
TickMs == 40
IngestTarget == 15
IngestMs == 400
OcrTarget == 30
OcrMs == 1000
ExtractedTarget == 40
ExtractedMs == 400
AuditTarget == 95
AuditMs == 30000
DoneTarget == 100
DoneMs == 500

\* `undefined` where a number is expected (a field a JSON body lacks)
Undef == -1
\* `null` is the empty tuple; a held object x is <<x>>
Null == << >>

VARIABLES
  auditResult, agentLog, currentAuditId,
  riskScore, findings, violations, exposure,
  isExtracting, extractionProgress, pipelineStages, progressRef,
  auditorState, shieldState, actionState,
  auditorAction, shieldAction, actionAction,
  auditorItems, shieldItems, actionItems,
  selectedAgentFilter, activeNodes,
  timers,      \* the live setInterval timers of animateProgress
  sessions,    \* the invocations of handleFilesAccepted, in call order
  nSessions,   \* how many invocations have started
  drops,       \* FileDropZone.onDrop calls awaiting fileToBase64
  faults,      \* departures from the nominal run so far: awaited calls
               \* answered other than nominally, submits during a run
  persisting,  \* the calls of logAuditEvent that have not settled, as far as
               \* the run follows them (limits.persist)
  warned,      \* whether a failed insert has been reported by console.warn
  limits,      \* the bounds of the run that is explored; never changes
  now,         \* what Date.now() last returned
  elapsed      \* whether an awaited delay has ended since that reading

agentVars == <<auditorState, shieldState, actionState,
               auditorAction, shieldAction, actionAction,
               auditorItems, shieldItems, actionItems>>
baselineVars == <<riskScore, findings, violations>>
timerVars == <<timers, progressRef>>
clockVars == <<limits, now, elapsed>>
persistVars == <<persisting, warned>>
vars == <<auditResult, agentLog, currentAuditId, riskScore, findings, violations,
          exposure, isExtracting, extractionProgress, pipelineStages, progressRef,
          auditorState, shieldState, actionState, auditorAction, shieldAction,
          actionAction, auditorItems, shieldItems, actionItems,
          selectedAgentFilter, activeNodes, timers, sessions, nSessions, drops, faults,
          limits, now, elapsed, persisting, warned>>

\* ------------------------------------------------------------ values
Pct(p) == p * Scale

Or0(x) == IF x = Undef THEN 0 ELSE x

Quot(a, b) == IF a >= 0 THEN a \div b ELSE -((-a) \div b)

DEFAULT_STAGES == [i \in 0..4 |-> "pending"]

InitialNodes ==
  [n \in 1..6 |->
     CASE n = 1 -> [label |-> "GreenTextile GmbH", type |-> "supplier",
                    status |-> "unverified", location |-> "Bangladesh", emissions |-> ""]
       [] n = 2 -> [label |-> "Port Chittagong", type |-> "port",
                    status |-> "unverified", location |-> "BDCGP", emissions |-> ""]
       [] n = 3 -> [label |-> "MSC AURORA", type |-> "logistics",
                    status |-> "verified", location |-> "Indian Ocean", emissions |-> ""]
       [] n = 4 -> [label |-> "Port Hamburg", type |-> "port",
                    status |-> "verified", location |-> "DEHAM", emissions |-> ""]
       [] n = 5 -> [label |-> "EU Distribution", type |-> "warehouse",
                    status |-> "unverified", location |-> "Germany", emissions |-> ""]
       [] OTHER -> [label |-> "Retail (EU Market)", type |-> "destination",
                    status |-> "verified", location |-> "EU", emissions |-> ""]]

AuditorReady == "Claude 3.5 Vision ready"
ShieldReady == "EU ESPR vector DB loaded"
ActionReady == "GLEIF + You.com ready"

mkLog(agent, action, severity, audit_id) ==
  [audit_id |-> audit_id, agent |-> agent, action |-> action, severity |-> severity]

\* The file lists a drop can carry: the first n of the dropped documents.
FileName(i) == "doc" \o ToString(i) \o ".pdf"
DropLists == {[i \in 1..n |-> FileName(i)] : n \in 1..limits.files}
MockFiles == <<"INV-2026-0402-003.pdf">>

\* An invocation of handleFilesAccepted: where it is (pc), its locals, the
\* timers its delay waits for (waitFor), how the extraction call of each file
\* so far was answered (answers), what the orchestration call was answered
\* with (respKind) and how the invocation ended.
IdleSession ==
  [pc |-> "idle", files |-> << >>, auditId |-> "", idx |-> 0, start |-> 0,
   extractedData |-> Null, allExtractedData |-> << >>, request |-> Null,
   data |-> Null, k |-> 0, waitFor |-> {}, answers |-> << >>, respKind |-> "",
   ended |-> ""]

\* The page after its first render, in a run bounded by lim.
Mounted(lim) ==
  /\ auditResult = Null
  /\ agentLog = << >>
  /\ currentAuditId = ""
  /\ riskScore = 0
  /\ findings = << >>
  /\ violations = << >>
  /\ exposure = 0
  /\ isExtracting = FALSE
  /\ extractionProgress = 0
  /\ pipelineStages = DEFAULT_STAGES
  /\ progressRef = 0
  /\ auditorState = "IDLE"
  /\ shieldState = "IDLE"
  /\ actionState = "IDLE"
  /\ auditorAction = AuditorReady
  /\ shieldAction = ShieldReady
  /\ actionAction = ActionReady
  /\ auditorItems = 0
  /\ shieldItems = 0
  /\ actionItems = 0
  /\ selectedAgentFilter = ""
  /\ activeNodes = InitialNodes
  /\ timers = {}
  /\ sessions = [s \in 1..MaxSessions |-> IdleSession]
  /\ nSessions = 0
  /\ drops = << >>
  /\ faults = 0
  /\ limits = lim
  /\ persisting = 0
  /\ warned = FALSE
  /\ now = 0
  /\ elapsed = TRUE

Limits ==
  [sessions |-> MaxSessions, files |-> MaxFiles, faults |-> MaxFaults,
   fires |-> MaxTimerFires, persist |-> 0]

Init == Mounted(Limits)

\* ------------------------------------------------ animateProgress
\* step = (target - extractionProgress) / (duration / 40), where
\* extractionProgress is the value the callback closed over.
StepOf(target, duration, start) == Quot((Pct(target) - start) * TickMs, duration)

\* setInterval hands out a fresh handle; progressRef holds the last one.
NewTimerId == progressRef + 1

\* clearInterval(progressRef.current)
ClearRef(ts) == {t \in ts : t.id # progressRef}

NewTimer(target, duration, start) ==
  [id |-> NewTimerId, target |-> Pct(target),
   step |-> StepOf(target, duration, start), current |-> start, fires |-> 0]

\* animateProgress without its clearInterval of line 136.
animateProgressNoClear(target, duration, start) ==
  /\ timers' = timers \cup {NewTimer(target, duration, start)}
  /\ progressRef' = NewTimerId

animateProgress(target, duration, start) ==
  /\ timers' = ClearRef(timers) \cup {NewTimer(target, duration, start)}
  /\ progressRef' = NewTimerId

\* One run of the interval callback: the value it displays and whether it
\* called clearInterval.
Reached(step, current, target) ==
  \/ (step > 0 /\ current >= target)
  \/ (step < 0 /\ current <= target)

OneTick(t) ==
  LET c == t.current + t.step
      hit == Reached(t.step, c, t.target)
  IN [current |-> IF hit THEN t.target ELSE c, cleared |-> hit]

\* k consecutive runs of the callback, ending early when it clears the timer.
RECURSIVE Burst(_, _)
Burst(t, k) ==
  LET r == OneTick(t)
  IN IF r.cleared \/ k <= 1
       THEN r
       ELSE Burst([t EXCEPT !.current = r.current], k - 1)

\* The callbacks one animation of DoneMs needs, 40 ms apart.
BurstLen == (DoneMs + TickMs - 1) \div TickMs

TickBursts == {1, BurstLen}

\* The handles of the live timers no callback of which has run yet.
Unfired(ts) == {t.id : t \in {u \in ts : u.fires = 0}}

\* An awaited delay lasts 150 ms or more and a timer ticks every 40 ms: the
\* delay of invocation s ends after every timer that was live when it began
\* has run its callback or has been cleared.
DelayOver(s) == \A t \in timers : t.id \in sessions[s].waitFor => t.fires > 0

Tick(t, k) ==
  /\ t.fires < limits.fires
  /\ LET r == Burst(t, k)
         ticked == (timers \ {t}) \cup
                   {[t EXCEPT !.current = r.current, !.fires = t.fires + 1]}
     IN /\ extractionProgress' = r.current
        /\ timers' = IF r.cleared THEN ClearRef(ticked) ELSE ticked
  /\ UNCHANGED <<auditResult, agentLog, persistVars, currentAuditId, baselineVars, exposure,
                 isExtracting, pipelineStages, progressRef, agentVars,
                 selectedAgentFilter, activeNodes, sessions, nSessions, drops,
                 faults, clockVars>>

\* ------------------------------------------------- the run's bound
\* A run departs from the nominal one when an awaited call is answered other
\* than nominally or when a submit starts while an invocation is in flight;
\* limits.faults departures are drawn in one run.
Answered(nominal) ==
  /\ nominal \/ faults < limits.faults
  /\ faults' = IF nominal THEN faults ELSE faults + 1

Running(s) == sessions[s].pc \notin {"idle", "done"}

InFlight == \E s \in 1..MaxSessions : Running(s)

\* ------------------------------------------------------- pushLog
\* pushLog with the insert of logAuditEvent awaited before the next entry.
pushLogAwaited(entry) ==
  /\ persisting = 0
  /\ agentLog' = Append(agentLog, entry)
  /\ persisting' = IF limits.persist > 0 THEN 1 ELSE 0
  /\ UNCHANGED warned

\* Lines 153-160 for n entries: every entry carries an audit_id, so pushLog
\* calls logAuditEvent for it and does not await the promise.
logged(n) ==
  /\ persisting' = IF persisting + n <= limits.persist THEN persisting + n
                                                       ELSE limits.persist
  /\ UNCHANGED warned

\* A call of logAuditEvent settles: the insert has resolved (ok), or it has
\* thrown and the catch of logAuditEvent has called console.warn.
PersistSettles(ok) ==
  /\ persisting > 0
  /\ persisting' = persisting - 1
  /\ warned' = (warned \/ ~ok)
  /\ UNCHANGED <<auditResult, agentLog, currentAuditId, baselineVars, exposure,
                 isExtracting, extractionProgress, pipelineStages, agentVars,
                 selectedAgentFilter, activeNodes, timerVars, sessions, nSessions,
                 drops, faults, clockVars>>

\* ------------------------------------------- handleFilesAccepted
\* resetAgents without its three setXItems(0).
resetAgentsKeepingCounts ==
  /\ auditorState' = "IDLE"
  /\ shieldState' = "IDLE"
  /\ actionState' = "IDLE"
  /\ auditorAction' = AuditorReady
  /\ shieldAction' = ShieldReady
  /\ actionAction' = ActionReady
  /\ selectedAgentFilter' = ""
  /\ UNCHANGED <<auditorItems, shieldItems, actionItems>>

resetAgents ==
  /\ auditorState' = "IDLE"
  /\ shieldState' = "IDLE"
  /\ actionState' = "IDLE"
  /\ auditorAction' = AuditorReady
  /\ shieldAction' = ShieldReady
  /\ actionAction' = ActionReady
  /\ auditorItems' = 0
  /\ shieldItems' = 0
  /\ actionItems' = 0
  /\ selectedAgentFilter' = ""

\* Lines 189-195: the setters that run before the empty-list test.
PurgeResults ==
  /\ findings' = << >>
  /\ violations' = << >>
  /\ exposure' = 0
  /\ riskScore' = 0
  /\ auditResult' = Null
  /\ resetAgents

\* handleFilesAccepted([]): returns at line 197.
SubmitEmpty ==
  /\ PurgeResults
  /\ agentLog' = << >>
  /\ UNCHANGED persistVars
  /\ UNCHANGED <<currentAuditId, isExtracting, extractionProgress, pipelineStages,
                 activeNodes, timerVars, sessions, nSessions, drops, faults, clockVars>>

\* "VERITY-" + Date.now()
NewAuditId == "VERITY-" \o ToString(now')

\* handleFilesAccepted(files) with files non-empty, up to the await of the
\* first upload.  start is the extractionProgress its animateProgress closed
\* over.  The caller says what becomes of drops.
Submit(files, start) ==
  /\ nSessions < limits.sessions
  /\ Answered(~InFlight)
  /\ now' \in (IF elapsed THEN {now + 1} ELSE {now, now + 1})
  /\ elapsed' = FALSE
  /\ PurgeResults
  /\ isExtracting' = TRUE
  /\ extractionProgress' = 0
  /\ currentAuditId' = NewAuditId
  /\ pipelineStages' = [DEFAULT_STAGES EXCEPT ![0] = "active"]
  /\ agentLog' = <<mkLog("SYSTEM", "FILE_RECEIVED", "INFO", NewAuditId)>>
  /\ logged(1)
  /\ nSessions' = nSessions + 1
  /\ sessions' = [sessions EXCEPT ![nSessions + 1] =
                    [IdleSession EXCEPT !.pc = "upload", !.files = files,
                                        !.auditId = NewAuditId, !.idx = 1,
                                        !.start = start]]
  /\ UNCHANGED <<activeNodes, timerVars, limits>>

isProcessing == isExtracting

\* The RUN AUDIT button (disabled while isProcessing).
runAudit ==
  /\ ~isProcessing
  /\ Submit(MockFiles, extractionProgress)
  /\ UNCHANGED drops

\* FileDropZone.onDrop up to its first await (the zone is disabled while
\* isProcessing); the onFilesAccepted it will call is the one of this render.
onDrop(files) ==
  /\ ~isProcessing
  /\ nSessions + Len(drops) < limits.sessions
  /\ drops' = Append(drops, [files |-> files, start |-> extractionProgress])
  /\ UNCHANGED <<auditResult, agentLog, persistVars, currentAuditId, baselineVars, exposure,
                 isExtracting, extractionProgress, pipelineStages, agentVars,
                 selectedAgentFilter, activeNodes, timerVars, sessions, nSessions, faults,
                 clockVars>>

RemoveAt(q, i) == [j \in 1..(Len(q) - 1) |-> IF j < i THEN q[j] ELSE q[j + 1]]

\* fileToBase64 resolved for every file of a drop: onFilesAccepted(processed).
onDropConverted(i) ==
  /\ i \in 1..Len(drops)
  /\ Submit(drops[i].files, drops[i].start)
  /\ drops' = RemoveAt(drops, i)

\* ----------------------------------------- stage 1: ingest (uploads)
pushLog(entry) ==
  /\ agentLog' = Append(agentLog, entry)
  /\ logged(1)


\* What uploadAuditDocument can do: resolve without error, resolve with
\* an error, or reject.
UploadOutcomes == {"stored", "error", "throw"}

UploadEntry(outcome, auditId) ==
  CASE outcome = "stored" -> mkLog("SYSTEM", "SUPABASE_STORED", "INFO", auditId)
    [] outcome = "error" -> mkLog("SYSTEM", "SUPABASE_WARN", "WARNING", auditId)
    [] OTHER -> mkLog("SYSTEM", "SUPABASE_SKIP", "WARNING", auditId)

\* The upload of file idx settles; the loop issues the next upload, or the
\* handler goes on to `await delay(400)`.
UploadSettles(s, outcome) ==
  /\ sessions[s].pc = "upload"
  /\ Answered(outcome = "stored")
  /\ pushLog(UploadEntry(outcome, sessions[s].auditId))
  /\ sessions' = [sessions EXCEPT ![s] =
       IF sessions[s].idx < Len(sessions[s].files)
         THEN [@ EXCEPT !.idx = @ + 1]
         ELSE [@ EXCEPT !.pc = "ingestDelay", !.idx = 0,
                        !.waitFor = Unfired(timers)]]
  /\ UNCHANGED <<auditResult, currentAuditId, baselineVars, exposure, isExtracting,
                 extractionProgress, pipelineStages, agentVars, selectedAgentFilter,
                 activeNodes, timerVars, nSessions, drops, clockVars>>

\* delay(400) over: lines 245-264.
IngestDelayDone(s) ==
  /\ sessions[s].pc = "ingestDelay"
  /\ DelayOver(s)
  /\ agentLog' = agentLog \o
       <<mkLog("SYSTEM", "INGESTION_COMPLETE", "INFO", sessions[s].auditId),
         mkLog("DEEP_AUDITOR", "CLAUDE_VISION_OCR", "INFO", sessions[s].auditId)>>
  /\ logged(2)
  /\ pipelineStages' = [pipelineStages EXCEPT ![0] = "complete", ![1] = "active"]
  /\ animateProgress(IngestTarget, IngestMs, sessions[s].start)
  /\ auditorState' = "PROCESSING"
  /\ auditorAction' = "Claude Vision: Forensic field extraction..."
  /\ sessions' = [sessions EXCEPT ![s] =
       [@ EXCEPT !.pc = "ocrDelay", !.waitFor = Unfired(timers')]]
  /\ elapsed' = TRUE
  /\ UNCHANGED <<auditResult, currentAuditId, baselineVars, exposure, isExtracting,
                 extractionProgress, shieldState, actionState, shieldAction,
                 actionAction, auditorItems, shieldItems, actionItems,
                 selectedAgentFilter, activeNodes, nSessions, drops, faults,
                 limits, now>>

\* ------------------------------------- stage 2: extraction requests
\* delay(300) over: lines 265-280, up to the await of the first fetch.
OcrDelayDone(s) ==
  /\ sessions[s].pc = "ocrDelay"
  /\ DelayOver(s)
  /\ animateProgress(OcrTarget, OcrMs, sessions[s].start)
  /\ sessions' = [sessions EXCEPT ![s] =
       [@ EXCEPT !.pc = "extract", !.idx = 1, !.waitFor = {},
                 !.extractedData = Null, !.allExtractedData = << >>]]
  /\ elapsed' = TRUE
  /\ UNCHANGED <<auditResult, agentLog, persistVars, currentAuditId, baselineVars, exposure,
                 isExtracting, extractionProgress, pipelineStages, agentVars,
                 selectedAgentFilter, activeNodes, nSessions, drops, faults,
                 limits, now>>

\* What the extraction call of one file can do: 2xx with status "success"
\* and an extraction that names the vendor or does not, 2xx with another
\* status, a non-2xx response, or a rejected fetch.
ExtractOutcomes == {"vendor", "novendor", "status", "http", "throw"}

Extraction(file, outcome) ==
  [doc |-> file, vendor_name |-> IF outcome = "vendor" THEN "Vendor of " \o file ELSE ""]

ExtractEntry(outcome, auditId) ==
  CASE outcome \in {"vendor", "novendor"} ->
         mkLog("DEEP_AUDITOR", "EXTRACTION_COMPLETE", "INFO", auditId)
    [] outcome = "status" -> mkLog("DEEP_AUDITOR", "EXTRACTION_ERROR", "ERROR", auditId)
    [] outcome = "http" -> mkLog("DEEP_AUDITOR", "EXTRACTION_FAILED", "ERROR", auditId)
    [] OTHER -> mkLog("DEEP_AUDITOR", "EXTRACTION_EXCEPTION", "ERROR", auditId)

\* Extracted, with extractedData replaced only by an extraction that names
\* the vendor.
ExtractedKeepingVendor(ses, outcome) ==
  IF outcome \in {"vendor", "novendor"}
    THEN [ses EXCEPT
            !.extractedData = IF outcome = "vendor"
                                THEN <<Extraction(ses.files[ses.idx], outcome)>>
                                ELSE @,
            !.allExtractedData = Append(@, Extraction(ses.files[ses.idx], outcome))]
    ELSE ses

\* Extracted, with a failed extraction ending the invocation.
ExtractedOrAbort(ses, outcome) ==
  IF outcome \in {"vendor", "novendor"}
    THEN [ses EXCEPT
            !.extractedData = <<Extraction(ses.files[ses.idx], outcome)>>,
            !.allExtractedData = Append(@, Extraction(ses.files[ses.idx], outcome))]
    ELSE [ses EXCEPT !.pc = "done", !.ended = "error"]

\* Extracted, with allExtractedData.push outside the test of data.status.
ExtractedAlways(ses, outcome) ==
  [ses EXCEPT
     !.extractedData = IF outcome \in {"vendor", "novendor"}
                         THEN <<Extraction(ses.files[ses.idx], outcome)>> ELSE @,
     !.allExtractedData = Append(@, Extraction(ses.files[ses.idx], outcome))]

\* The session's locals after the extraction of file idx has settled.
Extracted(ses, outcome) ==
  IF outcome \in {"vendor", "novendor"}
    THEN [ses EXCEPT
            !.extractedData = <<Extraction(ses.files[ses.idx], outcome)>>,
            !.allExtractedData = Append(@, Extraction(ses.files[ses.idx], outcome))]
    ELSE ses

\* The extraction of file idx settles: lines 291-318, then the next fetch, or
\* lines 321-323 after the last file.
ExtractSettles(s, outcome) ==
  /\ sessions[s].pc = "extract"
  /\ Answered(outcome = "vendor")
  /\ pushLog(ExtractEntry(outcome, sessions[s].auditId))
  /\ IF sessions[s].idx < Len(sessions[s].files)
       THEN /\ sessions' = [sessions EXCEPT ![s] =
                              [Extracted(@, outcome) EXCEPT
                                 !.idx = @ + 1, !.answers = Append(@, outcome)]]
            /\ UNCHANGED <<pipelineStages, timerVars>>
       ELSE /\ pipelineStages' = [pipelineStages EXCEPT ![1] = "complete"]
            /\ animateProgress(ExtractedTarget, ExtractedMs, sessions[s].start)
            /\ sessions' = [sessions EXCEPT ![s] =
                 [Extracted(@, outcome) EXCEPT !.pc = "auditDelay", !.idx = 0,
                                               !.answers = Append(@, outcome),
                                               !.waitFor = Unfired(timers')]]
  /\ UNCHANGED <<auditResult, currentAuditId, baselineVars, exposure, isExtracting,
                 extractionProgress, agentVars, selectedAgentFilter, activeNodes,
                 nSessions, drops, clockVars>>

\* ------------------------------- stages 3-5: the orchestration call
\* (extractedData as Record)?.vendor_name || "Unknown Supplier"
Vendor(extractedData) ==
  IF extractedData = Null \/ extractedData[1].vendor_name = ""
    THEN "Unknown Supplier"
    ELSE extractedData[1].vendor_name

AuditRequest(ses) ==
  [batch_id |-> ses.auditId, supplier_name |-> Vendor(ses.extractedData),
   documents |-> ses.files, extracted_data |-> ses.allExtractedData]

\* delay(300) over: lines 328-353, up to the await of the fetch.
AuditDelayDone(s) ==
  /\ sessions[s].pc = "auditDelay"
  /\ DelayOver(s)
  /\ pipelineStages' = [pipelineStages EXCEPT ![2] = "active"]
  /\ auditorState' = "PROCESSING"
  /\ shieldState' = "PROCESSING"
  /\ actionState' = "PROCESSING"
  /\ auditorAction' = "Waiting for Claude Core Analysis..."
  /\ shieldAction' = "Waiting for Compliance Check..."
  /\ actionAction' = "Waiting for Resolution Strategy..."
  /\ animateProgress(AuditTarget, AuditMs, sessions[s].start)
  /\ sessions' = [sessions EXCEPT ![s] =
       [@ EXCEPT !.pc = "orchestrate", !.waitFor = {},
                 !.request = <<AuditRequest(sessions[s])>>]]
  /\ elapsed' = TRUE
  /\ UNCHANGED <<auditResult, agentLog, persistVars, currentAuditId, baselineVars, exposure,
                 isExtracting, extractionProgress, auditorItems, shieldItems,
                 actionItems, selectedAgentFilter, activeNodes, nSessions, drops, faults,
                 limits, now>>

\* The JSON bodies the orchestration call is answered with.  ok is res.ok,
\* which the handler does not read; isNull is the body `null`; findingsArray
\* is whether `findings` is an array (or absent) rather than another truthy
\* value; a field the body lacks is Undef, "" or << >>.
EmptyBody ==
  [ok |-> TRUE, isNull |-> FALSE, audit_id |-> <<"", 0>>,
   findings_count |-> Undef, violations_count |-> Undef,
   total_financial_exposure_eur |-> Undef, findingsArray |-> TRUE,
   findings |-> << >>, corrective_actions |-> Undef, resolution_status |-> "",
   co2 |-> Undef, agent_log |-> << >>]

CompliantBody ==
  [EmptyBody EXCEPT !.audit_id = <<"VERITY-", 7>>, !.findings_count = 0,
     !.violations_count = 0, !.total_financial_exposure_eur = 0,
     !.corrective_actions = 0, !.resolution_status = "RESOLVED",
     !.agent_log = <<[agent |-> "DEEP_AUDITOR", action |-> "AUDIT_COMPLETE",
                      severity |-> "INFO"]>>]

ViolatingBody ==
  [EmptyBody EXCEPT !.audit_id = <<"VERITY-", 8>>, !.findings_count = 2,
     !.violations_count = 2, !.total_financial_exposure_eur = 50000,
     !.findings = <<"SOURCE_MISMATCH", "QUANTITY_DRIFT">>,
     !.corrective_actions = 1, !.resolution_status = "ESCALATED", !.co2 = 1250,
     !.agent_log = <<[agent |-> "DEEP_AUDITOR", action |-> "FINDING",
                      severity |-> "CRITICAL"],
                     [agent |-> "REGULATORY_SHIELD", action |-> "VIOLATION",
                      severity |-> "CRITICAL"]>>]

\* A non-2xx answer with a JSON error body, {"detail": ...}.
ErrorBody == [EmptyBody EXCEPT !.ok = FALSE]

\* A 2xx answer whose `findings` is not an array.
BadFindingsBody ==
  [EmptyBody EXCEPT !.audit_id = <<"VERITY-", 9>>, !.findings_count = 1,
     !.violations_count = 1, !.total_financial_exposure_eur = 900,
     !.findingsArray = FALSE]

\* A 2xx answer whose body is `null`.
NullBody == [EmptyBody EXCEPT !.isNull = TRUE]

Bodies == {CompliantBody, ViolatingBody, ErrorBody, BadFindingsBody, NullBody}

\* How the answer is classified: "ok", or one of the three failures.
RespKind(data) ==
  IF ~data.ok THEN "non2xx"
  ELSE IF data.isNull \/ ~data.findingsArray THEN "malformed"
  ELSE "ok"

Has(seq, x) == \E i \in 1..Len(seq) : seq[i] = x

\* Lines 385-394.
\* ProjectNodes with every node marked verified by a result without findings.
ProjectNodesVerifyingAll(nodes, data) ==
  [n \in 1..6 |->
     CASE n = 1 -> [nodes[n] EXCEPT !.status =
                      IF Has(data.findings, "SOURCE_MISMATCH") THEN "flagged"
                                                                ELSE "verified"]
       [] n = 3 -> [nodes[n] EXCEPT !.emissions =
                      IF data.co2 # Undef /\ data.co2 # 0
                        THEN ToString(data.co2) \o ".0kg" ELSE @]
       [] OTHER -> [nodes[n] EXCEPT !.status =
                      IF data.findings_count = 0 /\ data.audit_id[1] = "VERITY-"
                        THEN "verified" ELSE @]]

\* ProjectNodes with the status of node 1 kept when no finding is a
\* SOURCE_MISMATCH.
ProjectNodesKeepingSupplier(nodes, data) ==
  [n \in 1..6 |->
     CASE n = 1 -> [nodes[n] EXCEPT !.status =
                      IF Has(data.findings, "SOURCE_MISMATCH") THEN "flagged" ELSE @]
       [] n = 2 -> [nodes[n] EXCEPT !.status =
                      IF data.findings_count = 0 /\ data.audit_id[1] = "VERITY-"
                        THEN "verified" ELSE @]
       [] n = 3 -> [nodes[n] EXCEPT !.emissions =
                      IF data.co2 # Undef /\ data.co2 # 0
                        THEN ToString(data.co2) \o ".0kg" ELSE @]
       [] OTHER -> nodes[n]]

ProjectNodes(nodes, data) ==
  [n \in 1..6 |->
     CASE n = 1 -> [nodes[n] EXCEPT !.status =
                      IF Has(data.findings, "SOURCE_MISMATCH") THEN "flagged"
                                                                ELSE "verified"]
       [] n = 2 -> [nodes[n] EXCEPT !.status =
                      IF data.findings_count = 0 /\ data.audit_id[1] = "VERITY-"
                        THEN "verified" ELSE @]
       [] n = 3 -> [nodes[n] EXCEPT !.emissions =
                      IF data.co2 # Undef /\ data.co2 # 0
                        THEN ToString(data.co2) \o ".0kg" ELSE @]
       [] OTHER -> nodes[n]]

SuccessStages(st) == [st EXCEPT ![2] = "complete", ![3] = "complete", ![4] = "complete"]

\* The catch block without its updateStage(4, "error").
CatchStagesButLast(st) == [st EXCEPT ![2] = "error", ![3] = "error"]

\* Line 405.
CatchStages(st) == [st EXCEPT ![2] = "error", ![3] = "error", ![4] = "error"]

\* The test of line 396 with >= for >.
FinalActionStateFromZero(data) ==
  IF data.violations_count >= 0 THEN "ESCALATED" ELSE "SUCCESS"

\* Lines 374 and 396-399.
FinalActionState(data) ==
  IF data.violations_count > 0 THEN "ESCALATED" ELSE "SUCCESS"

FinalActionLabel(data) ==
  IF data.violations_count > 0
    THEN "Drafting Escalation Email..."
    ELSE "Status: " \o (IF data.resolution_status = "" THEN "UNKNOWN"
                                                     ELSE data.resolution_status)

\* (realAuditData.findings || []).some(...) throws when findings is not an array.
FindingsThrow(data) == ~data.findingsArray

\* Lines 364-408 once the replay loop is over: the result is applied; a throw
\* at line 385 lands in the catch block with lines 364-382 already done.
ApplyResult(data) ==
  /\ auditorAction' = ToString(Or0(data.findings_count)) \o " findings"
  /\ auditorItems' = Or0(data.findings_count)
  /\ shieldAction' = ToString(Or0(data.violations_count)) \o " violations"
  /\ shieldItems' = Or0(data.violations_count)
  /\ actionItems' = Or0(data.corrective_actions)
  /\ auditResult' = <<data>>
  /\ exposure' = Or0(data.total_financial_exposure_eur)
  /\ IF FindingsThrow(data)
       THEN /\ auditorState' = "ERROR"
            /\ shieldState' = "ERROR"
            /\ actionState' = "ERROR"
            /\ actionAction' = "Status: " \o (IF data.resolution_status = ""
                                                THEN "UNKNOWN"
                                                ELSE data.resolution_status)
            /\ pipelineStages' = CatchStages(SuccessStages(pipelineStages))
            /\ UNCHANGED activeNodes
       ELSE /\ auditorState' = "SUCCESS"
            /\ shieldState' = "SUCCESS"
            /\ actionState' = FinalActionState(data)
            /\ actionAction' = FinalActionLabel(data)
            /\ pipelineStages' = SuccessStages(pipelineStages)
            /\ activeNodes' = ProjectNodes(activeNodes, data)
  /\ isExtracting' = FALSE

\* Lines 401-408: the catch block, then setIsExtracting(false).
CatchBlock ==
  /\ auditorState' = "ERROR"
  /\ shieldState' = "ERROR"
  /\ actionState' = "ERROR"
  /\ pipelineStages' = CatchStages(pipelineStages)
  /\ isExtracting' = FALSE
  /\ UNCHANGED <<auditResult, exposure, auditorAction, shieldAction, actionAction,
                 auditorItems, shieldItems, actionItems, activeNodes>>

\* The locals of a returned invocation are gone; how it ended is kept.
Ended(ses, kind, how) ==
  [IdleSession EXCEPT !.pc = "done", !.auditId = ses.auditId,
                      !.respKind = kind, !.ended = how]

\* fetch rejects (transport), or res.json() rejects (the body is not JSON).
OrchestrateRejects(s, kind) ==
  /\ sessions[s].pc = "orchestrate"
  /\ Answered(FALSE)
  /\ CatchBlock
  /\ sessions' = [sessions EXCEPT ![s] = Ended(@, kind, "error")]
  /\ UNCHANGED <<agentLog, persistVars, currentAuditId, baselineVars,
                 extractionProgress,
                 selectedAgentFilter, timerVars, nSessions, drops, clockVars>>

ReplayEntry(data, k, auditId) ==
  mkLog(data.agent_log[k].agent, data.agent_log[k].action,
        data.agent_log[k].severity, auditId)

\* res.json() resolves with data: lines 355-361 up to the first
\* `await delay(150)`, or all of lines 355-408 when there is nothing to replay.
OrchestrateReturns(s, data) ==
  /\ sessions[s].pc = "orchestrate"
  /\ Answered(RespKind(data) = "ok")
  /\ animateProgress(DoneTarget, DoneMs, sessions[s].start)
  /\ IF data.isNull
       THEN /\ CatchBlock
            /\ sessions' = [sessions EXCEPT ![s] = Ended(@, RespKind(data), "error")]
            /\ UNCHANGED <<agentLog, persistVars>>
       ELSE IF data.agent_log = << >>
         THEN /\ ApplyResult(data)
              /\ sessions' = [sessions EXCEPT ![s] =
                   Ended(@, RespKind(data),
                         IF FindingsThrow(data) THEN "error" ELSE "success")]
              /\ UNCHANGED <<agentLog, persistVars>>
         ELSE /\ pushLog(ReplayEntry(data, 1, sessions[s].auditId))
              /\ sessions' = [sessions EXCEPT ![s] =
                   [@ EXCEPT !.pc = "replay", !.data = <<data>>, !.k = 1,
                             !.waitFor = Unfired(timers'),
                             !.respKind = RespKind(data), !.request = Null]]
              /\ UNCHANGED <<auditResult, exposure, isExtracting, pipelineStages,
                             agentVars, activeNodes>>
  /\ UNCHANGED <<currentAuditId, baselineVars, extractionProgress,
                 selectedAgentFilter, nSessions, drops, clockVars>>

\* delay(150) over: the next entry of agent_log, or lines 364-408.
ReplayDelayDone(s) ==
  /\ sessions[s].pc = "replay"
  /\ DelayOver(s)
  /\ LET data == sessions[s].data[1]
         k == sessions[s].k
     IN IF k < Len(data.agent_log)
          THEN /\ pushLog(ReplayEntry(data, k + 1, sessions[s].auditId))
               /\ sessions' = [sessions EXCEPT ![s] =
                    [@ EXCEPT !.k = k + 1, !.waitFor = Unfired(timers)]]
               /\ UNCHANGED <<auditResult, exposure, isExtracting, pipelineStages,
                              agentVars, activeNodes>>
          ELSE /\ ApplyResult(data)
               /\ sessions' = [sessions EXCEPT ![s] =
                    Ended(@, sessions[s].respKind,
                          IF FindingsThrow(data) THEN "error" ELSE "success")]
               /\ UNCHANGED <<agentLog, persistVars>>
  /\ elapsed' = TRUE
  /\ UNCHANGED <<currentAuditId, baselineVars, extractionProgress,
                 selectedAgentFilter, timerVars, nSessions, drops, faults,
                 limits, now>>

\* ------------------------------------------------------- the feed
\* The logs prop without the test of audit_id.
FeedLogsUnfiltered == agentLog

\* Line 496: the logs prop of LiveAgentFeed.
FeedLogs == SelectSeq(agentLog, LAMBDA log : log.audit_id = currentAuditId)

\* The ids of agentStatuses, which AgentStatusPanel passes to onAgentClick.
AgentIds == {"deep_auditor", "regulatory_shield", "action_agent"}

\* Line 515: a click on an agent of the status panel.
onAgentClick(id) ==
  /\ selectedAgentFilter' = IF selectedAgentFilter = id THEN "" ELSE id
  /\ UNCHANGED <<auditResult, agentLog, persistVars, currentAuditId, baselineVars, exposure,
                 isExtracting, extractionProgress, pipelineStages, agentVars,
                 activeNodes, timerVars, sessions, nSessions, drops, faults,
                 clockVars>>

\* LiveAgentFeed.filteredLogs: what the feed shows.
filteredLogs ==
  IF selectedAgentFilter # ""
    THEN SelectSeq(FeedLogs, LAMBDA log : log.agent = selectedAgentFilter)
    ELSE FeedLogs

\* ------------------------------------------------- specifications
Sessions == 1..MaxSessions

\* A step of an invocation of handleFilesAccepted past its first segment.
SessionStep(s) ==
  \/ \E o \in UploadOutcomes : UploadSettles(s, o)
  \/ IngestDelayDone(s)
  \/ OcrDelayDone(s)
  \/ \E o \in ExtractOutcomes : ExtractSettles(s, o)
  \/ AuditDelayDone(s)
  \/ \E kind \in {"transport", "nonjson"} : OrchestrateRejects(s, kind)
  \/ \E data \in Bodies : OrchestrateReturns(s, data)
  \/ ReplayDelayDone(s)

Next ==
  \/ runAudit
  \/ \E files \in DropLists : onDrop(files)
  \/ \E i \in 1..Len(drops) : onDropConverted(i)
  \/ \E s \in Sessions : SessionStep(s)
  \/ \E t \in timers, k \in TickBursts : Tick(t, k)

Spec == Init /\ [][Next]_vars

\* Runs of one invocation after another, in which handleFilesAccepted is
\* also called with an empty list.
InitEmpty == Mounted([Limits EXCEPT !.sessions = EmptyRunSessions])

SpecEmpty == InitEmpty /\ [][Next \/ SubmitEmpty]_vars

\* Runs of one invocation in which agents of the status panel are clicked.
SpecFeed ==
  /\ Mounted([Limits EXCEPT !.sessions = FeedSessions])
  /\ [][Next \/ \E id \in AgentIds : onAgentClick(id)]_vars

\* Runs of one invocation in which the calls of logAuditEvent are followed:
\* each settles, well or badly, at any time or never (no fairness), while the
\* event loop runs the continuations and the timer callbacks.
SpecPersist ==
  /\ Mounted([Limits EXCEPT !.sessions = PersistSessions, !.persist = MaxPersist])
  /\ [][Next \/ \E ok \in BOOLEAN : PersistSettles(ok)]_vars
  /\ \A s \in Sessions : WF_vars(SessionStep(s))
  /\ WF_vars(\E t \in timers, k \in TickBursts : Tick(t, k))

\* The event loop runs every continuation whose awaited call has settled,
\* and every awaited call settles.
InitFair ==
  Mounted([Limits EXCEPT !.sessions = FairSessions, !.files = FairFiles,
                         !.faults = FairFaults])

FairSpec ==
  /\ InitFair
  /\ [][Next]_vars
  /\ \A s \in Sessions : WF_vars(SessionStep(s))
  /\ WF_vars(\E t \in timers, k \in TickBursts : Tick(t, k))

\* ------------------------------------------------------- properties
\* What the page shows of a session and of its results.
Display ==
  <<findings, violations, exposure, riskScore, agentLog, auditResult, agentVars,
    selectedAgentFilter, pipelineStages, extractionProgress>>

\* C1: handleFilesAccepted called with an empty list changes nothing: no
\* session id is generated and findings, violations, exposure, risk score,
\* log, audit result, agents, agent filter, stages and progress keep their
\* values.
C1_EmptySubmitIsNoOp ==
  [][SubmitEmpty => UNCHANGED <<currentAuditId, Display>>]_vars

\* A session has published its result and its log.
C1_AfterCompletedSession ==
  /\ ~InFlight
  /\ auditResult # Null
  /\ agentLog # << >>
  /\ auditorState = "SUCCESS"

AllStages(from, status) == \A i \in from..4 : pipelineStages[i] = status

FullyComplete == AllStages(0, "complete") /\ auditResult # Null

FullyError == AllStages(2, "error") /\ auditResult = Null

\* C2: once every invocation of handleFilesAccepted has returned, the page is
\* fully complete (the five stages complete and an audit result) or fully in
\* error (stages 3-5 in error and no audit result).
C2_TerminalStateNotMixed ==
  (nSessions > 0 /\ ~InFlight) => (FullyComplete \/ FullyError)

\* An invocation that was alone has returned through the catch block.
C2_EndedInError ==
  /\ nSessions = 1
  /\ sessions[1].ended = "error"
  /\ AllStages(2, "error")

\* No invocation has work outstanding, the processing flag is down and every
\* stage is complete or in error.
Terminal ==
  /\ ~InFlight
  /\ ~isExtracting
  /\ \A i \in 0..4 : pipelineStages[i] \in {"complete", "error"}

\* C3: when every awaited call settles, an invocation in flight leads to a
\* terminal state: isExtracting is false and no stage is pending or active.
C3_SessionsTerminate == InFlight ~> Terminal

\* An invocation has returned through the catch block and left a terminal state.
C3_TerminalAfterError ==
  /\ Terminal
  /\ \E s \in Sessions : sessions[s].ended = "error"

\* What the header shows: auditResult?.total_financial_exposure_eur ?? exposure.
ExposureShown ==
  IF auditResult # Null /\ auditResult[1].total_financial_exposure_eur # Undef
    THEN auditResult[1].total_financial_exposure_eur
    ELSE exposure

FailureKinds == {"non2xx", "transport", "nonjson", "malformed"}

\* Invocation s returns in this step.
Returns(s) == sessions[s].pc # "done" /\ sessions'[s].pc = "done"

\* C4: when the orchestration call of an invocation has failed (a non-2xx
\* answer, a rejected fetch or a malformed body), the invocation returns with
\* the three agents in ERROR, stages 3-5 in error, no audit result and the
\* header showing the purged exposure, 0.
C4_OrchestrationFailureHandled ==
  [][\A s \in Sessions :
       (Returns(s) /\ sessions'[s].respKind \in FailureKinds) =>
         /\ auditorState' = "ERROR"
         /\ shieldState' = "ERROR"
         /\ actionState' = "ERROR"
         /\ AllStages(2, "error")'
         /\ auditResult' = Null
         /\ ExposureShown' = 0]_vars

\* The one invocation of the run was answered non-2xx and has returned.
C4_Non2xxAnswered ==
  /\ nSessions = 1
  /\ sessions[1].pc = "done"
  /\ sessions[1].respKind = "non2xx"

\* C5: a step of an invocation that a later submit has superseded changes
\* nothing of the audit result, the exposure, the agents, the stages, the
\* progress (it starts no progress animation) or the topology.
C5_SupersededSessionDiscarded ==
  [][\A s \in Sessions :
       (s < nSessions /\ sessions'[s] # sessions[s]) =>
         UNCHANGED <<auditResult, exposure, agentVars, pipelineStages,
                     extractionProgress, timers, activeNodes>>]_vars

\* C6: at most one invocation of handleFilesAccepted has work outstanding.
C6_AtMostOneActiveSession ==
  Cardinality({s \in Sessions : Running(s)}) <= 1

\* C8: between two submits the displayed progress never goes down.
C8_ProgressMonotone ==
  [][nSessions' = nSessions => extractionProgress' >= extractionProgress]_vars

\* C9: while an orchestration call is outstanding the displayed progress is
\* below 100.
C9_ProgressBelow100WhileOrchestrating ==
  (\E s \in Sessions : sessions[s].pc = "orchestrate") =>
    extractionProgress < Pct(DoneTarget)

\* C7: at the end of the step of handleFilesAccepted that issues the first
\* upload, findings, violations, exposure, risk score and audit result have
\* their initial values, the log holds only the FILE_RECEIVED entry of the
\* new session, the agents are IDLE with their initial labels and zero
\* counts, progress is 0 and stages 2-5 are pending.
C7_PurgeBeforeFirstUpload ==
  [][nSessions' = nSessions + 1 =>
       /\ findings' = << >>
       /\ violations' = << >>
       /\ exposure' = 0
       /\ riskScore' = 0
       /\ auditResult' = Null
       /\ agentLog' = <<mkLog("SYSTEM", "FILE_RECEIVED", "INFO", currentAuditId')>>
       /\ auditorState' = "IDLE" /\ shieldState' = "IDLE" /\ actionState' = "IDLE"
       /\ auditorAction' = AuditorReady
       /\ shieldAction' = ShieldReady
       /\ actionAction' = ActionReady
       /\ auditorItems' = 0 /\ shieldItems' = 0 /\ actionItems' = 0
       /\ extractionProgress' = 0
       /\ \A i \in 1..4 : pipelineStages'[i] = "pending"]_vars

\* A second submit has just purged the results the first invocation published.
C7_SecondSubmitAfterResults ==
  /\ nSessions = 2
  /\ sessions[2].pc = "upload"
  /\ sessions[2].idx = 1
  /\ sessions[1].ended = "success"
  /\ activeNodes # InitialNodes
  /\ Len(agentLog) = 1
  /\ auditResult = Null

\* C10: an invocation that returns from its try block leaves the Action agent
\* ESCALATED, labelled with the escalation draft, when the result's
\* violations_count is greater than zero and SUCCESS otherwise; no step
\* leaves the Auditor or the Shield ESCALATED.
C10_EscalatedIffViolations ==
  [][/\ auditorState' # "ESCALATED"
     /\ shieldState' # "ESCALATED"
     /\ \A s \in Sessions :
          (Returns(s) /\ sessions'[s].ended = "success") =>
            IF auditResult'[1].violations_count > 0
              THEN /\ actionState' = "ESCALATED"
                   /\ actionAction' = "Drafting Escalation Email..."
              ELSE actionState' = "SUCCESS"]_vars

\* An invocation has returned with violations and the Action agent escalated.
C10_ActionEscalated ==
  /\ \E s \in Sessions : sessions[s].ended = "success"
  /\ auditResult # Null
  /\ auditResult[1].violations_count = 2
  /\ actionState = "ESCALATED"

\* The changes of a status the agents' state machine has; the Action agent
\* goes from PROCESSING to ESCALATED through SUCCESS within one segment
\* (lines 374 and 397).
Permitted(from, to, isAction) ==
  \/ to = from
  \/ from = "IDLE" /\ to = "PROCESSING"
  \/ from = "PROCESSING" /\ to \in {"SUCCESS", "ERROR"}
  \/ isAction /\ from \in {"PROCESSING", "SUCCESS"} /\ to = "ESCALATED"

\* C11: every change of an agent's status is IDLE->PROCESSING,
\* PROCESSING->SUCCESS, PROCESSING->ERROR, SUCCESS->ESCALATED (Action only),
\* or a reset to IDLE by the purge of a submit.
C11_AgentTransitionsPermitted ==
  [][\/ /\ nSessions' = nSessions + 1
        /\ auditorState' = "IDLE" /\ shieldState' = "IDLE" /\ actionState' = "IDLE"
     \/ /\ Permitted(auditorState, auditorState', FALSE)
        /\ Permitted(shieldState, shieldState', FALSE)
        /\ Permitted(actionState, actionState', TRUE)]_vars

\* C12: between two submits a stage that is complete or in error keeps its
\* status.
C12_StagesNeverRegress ==
  [][nSessions' = nSessions =>
       \A i \in 0..4 :
         pipelineStages[i] \in {"complete", "error"} =>
           pipelineStages'[i] = pipelineStages[i]]_vars

AnyAgentError == "ERROR" \in {auditorState, shieldState, actionState}

AnyStageError == \E i \in 0..4 : pipelineStages[i] = "error"

\* Invocation s is before its orchestration request.
BeforeRequest(s) ==
  sessions[s].pc \in {"upload", "ingestDelay", "ocrDelay", "extract", "auditDelay"}

\* The step puts no agent into ERROR and no stage into error.
NoNewError ==
  /\ \A i \in 0..4 : pipelineStages'[i] = "error" => pipelineStages[i] = "error"
  /\ auditorState' = "ERROR" => auditorState = "ERROR"
  /\ shieldState' = "ERROR" => shieldState = "ERROR"
  /\ actionState' = "ERROR" => actionState = "ERROR"

\* C13: whatever the uploads and the extractions of an invocation answer, it
\* goes on to issue its orchestration request: its step after the ingestion
\* delay completes the Ingest stage, its step after the last extraction
\* completes the OCR stage, and none of its steps before the request puts an
\* agent into ERROR or a stage into error; an agent is in ERROR or a stage in
\* error only after an invocation has ended in its catch block.
C13_FileErrorsDoNotEscalate ==
  /\ []((AnyAgentError \/ AnyStageError) =>
          \E s \in Sessions : sessions[s].ended = "error")
  /\ [][\A s \in Sessions :
          (BeforeRequest(s) /\ sessions'[s] # sessions[s]) =>
            /\ BeforeRequest(s)' \/ sessions'[s].pc = "orchestrate"
            /\ sessions[s].pc = "ingestDelay" => pipelineStages'[0] = "complete"
            /\ (sessions[s].pc = "extract" /\ sessions'[s].pc # "extract") =>
                 pipelineStages'[1] = "complete"
            /\ NoNewError]_vars
  /\ \A s \in Sessions : BeforeRequest(s) ~> (sessions[s].pc = "orchestrate")

\* The orchestration request of two files is issued after an upload and both
\* extractions failed.
C13_RequestAfterFileErrors ==
  \E s \in Sessions :
    /\ sessions[s].pc = "orchestrate"
    /\ Len(sessions[s].request[1].documents) = 2
    /\ sessions[s].request[1].extracted_data = << >>
    /\ \E i \in 1..Len(agentLog) : agentLog[i].action = "SUPABASE_SKIP"
    /\ \E i \in 1..Len(agentLog) : agentLog[i].action = "EXTRACTION_FAILED"
    /\ \E i \in 1..Len(agentLog) : agentLog[i].action = "EXTRACTION_EXCEPTION"

\* The indices, in order, of the files of ses whose extraction call returned
\* 2xx with status "success".
Succeeded(ses) ==
  SelectSeq([i \in 1..Len(ses.answers) |-> i],
            LAMBDA i : ses.answers[i] \in {"vendor", "novendor"})

\* C14: the extracted_data of the orchestration request is the sequence, in
\* file order, of the extractions of the files whose extraction call returned
\* 2xx with status "success", and of no other file.
C14_AggregateIsSuccessfulExtractions ==
  \A s \in Sessions :
    sessions[s].pc = "orchestrate" =>
      LET ses == sessions[s]
          sent == ses.request[1].extracted_data
      IN /\ Len(ses.answers) = Len(ses.files)
         /\ Len(sent) = Len(Succeeded(ses))
         /\ \A j \in 1..Len(sent) :
              sent[j] = Extraction(ses.files[Succeeded(ses)[j]],
                                   ses.answers[Succeeded(ses)[j]])

\* Of two files the first extraction failed and the second succeeded: the
\* request carries one extraction, the second file's.
C14_OneOfTwoSucceeded ==
  \E s \in Sessions :
    /\ sessions[s].pc = "orchestrate"
    /\ Len(sessions[s].files) = 2
    /\ sessions[s].answers[1] = "http"
    /\ sessions[s].answers[2] = "vendor"
    /\ Len(sessions[s].request[1].extracted_data) = 1
    /\ sessions[s].request[1].extracted_data[1].doc = sessions[s].files[2]

IsPrefix(p, q) == Len(p) <= Len(q) /\ SubSeq(q, 1, Len(p)) = p

\* C15: the log is append-only: every step leaves the entries it held in
\* place, unchanged and in order, also a step that starts a new session.
C15_LogAppendOnly == [][IsPrefix(agentLog, agentLog')]_vars

\* A second submit has happened after a first invocation logged and returned.
C15_SubmitAfterLoggedSession ==
  /\ nSessions = 2
  /\ sessions[1].pc = "done"
  /\ sessions[2].pc = "upload"
  /\ Len(agentLog) = 1

\* p is q with some of its elements left out.
RECURSIVE IsSubseq(_, _)
IsSubseq(p, q) ==
  IF p = << >> THEN TRUE
  ELSE IF q = << >> THEN FALSE
  ELSE IF Head(p) = Head(q) THEN IsSubseq(Tail(p), Tail(q))
  ELSE IsSubseq(p, Tail(q))

\* C16: the logs handed to LiveAgentFeed hold no entry of another session
\* than the current one and keep the order of the log.
C16_FeedHoldsCurrentSessionOnly ==
  /\ \A i \in 1..Len(FeedLogs) : FeedLogs[i].audit_id = currentAuditId
  /\ IsSubseq(FeedLogs, agentLog)

\* The log holds entries of the current session and of another one.
C16_LogOfTwoSessions ==
  /\ Len(FeedLogs) >= 2
  /\ \E i \in 1..Len(agentLog) : agentLog[i].audit_id # currentAuditId

\* The tag under which the agent with a given id of the status panel logs.
AgentTag(id) ==
  CASE id = "deep_auditor" -> "DEEP_AUDITOR"
    [] id = "regulatory_shield" -> "REGULATORY_SHIELD"
    [] id = "action_agent" -> "ACTION_AGENT"

\* C17: with an agent selected in the status panel the feed shows, in order,
\* the entries of the current session that this agent logged, and with no
\* agent selected all the entries of the current session.
C17_FeedFilteredByAgent ==
  filteredLogs =
    IF selectedAgentFilter \in AgentIds
      THEN SelectSeq(FeedLogs,
                     LAMBDA log : log.agent = AgentTag(selectedAgentFilter))
      ELSE FeedLogs

\* The DeepAuditor is selected and has logged in the current session.
C17_AuditorSelected ==
  /\ selectedAgentFilter = "deep_auditor"
  /\ \E i \in 1..Len(FeedLogs) : FeedLogs[i].agent = "DEEP_AUDITOR"

\* What the pipeline is made of: everything but the persistence calls.
PipelineVars ==
  <<auditResult, agentLog, currentAuditId, baselineVars, exposure, isExtracting,
    extractionProgress, pipelineStages, agentVars, selectedAgentFilter,
    activeNodes, timerVars, sessions, nSessions, drops, faults, clockVars>>

\* Whether invocation s can go on, told from the pipeline alone: it is neither
\* idle nor done, and a delay it awaits is over.
CanGoOn(s) ==
  /\ Running(s)
  /\ sessions[s].pc \in {"ingestDelay", "ocrDelay", "auditDelay", "replay"} =>
       DelayOver(s)

\* C18: the calls of logAuditEvent do not touch the pipeline: a call that
\* settles, well or badly, changes nothing of the pipeline; whether an
\* invocation can go on does not depend on the calls outstanding; and an
\* invocation reaches its terminal state also when they never settle.
C18_PersistenceDoesNotAffectPipeline ==
  /\ [][persisting' < persisting \/ warned' # warned =>
          UNCHANGED PipelineVars]_vars
  /\ [](\A s \in Sessions : CanGoOn(s) <=> ENABLED SessionStep(s))
  /\ InFlight ~> Terminal

\* The invocation has returned while three calls of logAuditEvent are still
\* outstanding and a failed one has been reported.
C18_ReturnedWithCallsOutstanding ==
  /\ nSessions = 1
  /\ sessions[1].pc = "done"
  /\ persisting = MaxPersist
  /\ warned

\* C19: any two invocations with a non-empty file list have different
\* session ids.
C19_SessionIdsUnique ==
  \A s, t \in Sessions :
    (s # t /\ s <= nSessions /\ t <= nSessions) =>
      sessions[s].auditId # sessions[t].auditId

\* Two invocations have started and no awaited delay has elapsed between
\* their submits.
C19_TwoSubmitsNoDelayBetween ==
  /\ nSessions = 2
  /\ ~elapsed
  /\ sessions[1].pc = "upload"
  /\ sessions[2].pc = "upload"

\* Invocation s awaits the delay that follows a replayed entry of agent_log
\* which is not the last one.
Replaying(s) ==
  /\ sessions[s].pc = "replay"
  /\ sessions[s].k < Len(sessions[s].data[1].agent_log)

\* A timer drives the progress toward 100.
DrivenToDone == \E t \in timers : t.target = Pct(DoneTarget)

\* C20: on a successful answer the entries of agent_log are appended first:
\* while an entry is still to be replayed the progress is not driven toward
\* 100, no agent is SUCCESS and no AuditResult is published; and AuditResult
\* is null at every point of an invocation before its end.
C20_ReplayThenCompletion ==
  /\ \A s \in Sessions :
       Replaying(s) =>
         /\ ~DrivenToDone
         /\ "SUCCESS" \notin {auditorState, shieldState, actionState}
         /\ auditResult = Null
  /\ \A s \in Sessions : Running(s) => auditResult = Null

\* The first of two entries of agent_log has been replayed and the second
\* has not.
C20_FirstOfTwoReplayed ==
  /\ Replaying(1)
  /\ Len(agentLog) > 0
  /\ agentLog[Len(agentLog)].action = "FINDING"

\* The timers a step has started.
Started == {t \in timers' : \A u \in timers : u.id # t.id}

\* C21: an animation starts from the progress that is displayed when
\* animateProgress is called, so that its first tick writes that value plus
\* one step.
C21_AnimationStartsFromDisplayed ==
  [][\A t \in Started : t.current = extractionProgress']_vars

\* An animation has been started while a progress above 0 is displayed.
C21_RetargetedAboveZero ==
  \E t \in timers : t.fires = 0 /\ extractionProgress > 0

\* C22: at most one timer is live and it is the one progressRef holds; a call
\* of animateProgress leaves only the timer it starts; and the timer
\* progressRef holds goes away in another step only by its own tick that
\* displays its target.
C22_AtMostOneTimer ==
  /\ [](Cardinality(timers) <= 1 /\ \A t \in timers : t.id = progressRef)
  /\ [][Started # {} => timers' = Started /\ Cardinality(Started) = 1]_vars
  /\ [][Started = {} =>
          \A t \in timers :
            (t.id = progressRef /\ \A u \in timers' : u.id # t.id) =>
              extractionProgress' = t.target]_vars

\* The second animation of an invocation is live, started after one tick of
\* the first, which had not reached its target.
C22_SupersededMidFlight ==
  \E t \in timers :
    /\ t.id = 2
    /\ t.target = Pct(OcrTarget)
    /\ extractionProgress > 0
    /\ extractionProgress < Pct(IngestTarget)

\* x lies between a and b, whichever is the larger.
Between(x, a, b) == (a <= x /\ x <= b) \/ (b <= x /\ x <= a)

\* C23: the next tick of a live animation displays a value between the one
\* it holds and its target, clears the timer exactly when it displays the
\* target, and otherwise moves the value, so that the animation, if it is
\* not superseded, stops at its target after finitely many ticks.
C23_AnimationStopsAtTarget ==
  \A t \in timers :
    LET r == OneTick(t)
    IN /\ Between(r.current, t.current, t.target)
       /\ r.cleared <=> (r.current = t.target)
       /\ r.cleared \/ r.current # t.current

\* The animation toward 100 of an invocation that was submitted while 100
\* was displayed: its start value is its target.
C23_StartEqualsTarget ==
  \E t \in timers :
    /\ t.target = Pct(DoneTarget)
    /\ t.current = t.target
    /\ t.fires = 0
    /\ ~InFlight

\* Invocation s is the only one running and has not called animateProgress
\* yet: it is before line 250.
AloneBeforeFirstAnimation(s) ==
  /\ sessions[s].pc \in {"upload", "ingestDelay"}
  /\ \A t \in Sessions : t # s => ~Running(t)

\* C24: the purge of a submit clears the timer an earlier invocation left:
\* until the new invocation starts its first animation no timer is live and
\* the progress displayed is the 0 of the purge.
C24_SubmitClearsLeftoverTimer ==
  \A s \in Sessions :
    AloneBeforeFirstAnimation(s) => (timers = {} /\ extractionProgress = 0)

\* After an invocation ended in error with its animation toward 95 running,
\* a second submit has purged and a tick of that animation has written the
\* progress.
C24_LeftoverTickAfterPurge ==
  /\ sessions[1].ended = "error"
  /\ AloneBeforeFirstAnimation(2)
  /\ \E t \in timers : t.target = Pct(AuditTarget) /\ t.fires = 1
  /\ extractionProgress > 0

\* C25: a stage becomes complete or error only from active.
C25_StagesPassThroughActive ==
  [][\A i \in 0..4 :
       (pipelineStages'[i] \in {"complete", "error"} /\
        pipelineStages'[i] # pipelineStages[i]) =>
         pipelineStages[i] = "active"]_vars

\* An invocation has ended with the Shield and Action stages complete.
C25_ShieldAndActionComplete ==
  /\ sessions[1].ended = "success"
  /\ pipelineStages[3] = "complete"
  /\ pipelineStages[4] = "complete"

\* The awaited call a running invocation has outstanding, if any.
Outstanding(ses) == ses.pc \in {"upload", "extract", "orchestrate"}

\* The place of a running invocation in the order of handleFilesAccepted:
\* the uploads by file, the two delays, the extractions by file, the delay,
\* the orchestration request, what follows it.
Pos(ses) ==
  LET n == Len(ses.files)
  IN CASE ses.pc = "upload" -> ses.idx
       [] ses.pc = "ingestDelay" -> n + 1
       [] ses.pc = "ocrDelay" -> n + 2
       [] ses.pc = "extract" -> n + 2 + ses.idx
       [] ses.pc = "auditDelay" -> 2 * n + 3
       [] ses.pc = "orchestrate" -> 2 * n + 4
       [] OTHER -> 2 * n + 5

\* C26: a submit issues the upload of the first file; every later step of an
\* invocation up to its orchestration request takes it to the next place of
\* the order, so that a call is issued in the step in which the one before
\* it settled, file by file, and the request is issued once; after the
\* request no call is issued; and a stage after the first becomes active only
\* in a step of an invocation that follows its step completing the stage
\* before (the step after the ingestion delay does both).
C26_CallsOneAtATimeInOrder ==
  /\ [][\A s \in Sessions :
          sessions'[s] # sessions[s] =>
            CASE sessions[s].pc = "idle" -> Pos(sessions'[s]) = 1
              [] BeforeRequest(s) ->
                   /\ sessions'[s].files = sessions[s].files
                   /\ Pos(sessions'[s]) = Pos(sessions[s]) + 1
              [] OTHER -> ~Outstanding(sessions'[s])]_vars
  /\ [][\A i \in 1..4 :
          (pipelineStages'[i] = "active" /\ pipelineStages[i] # "active") =>
            \E s \in Sessions :
              /\ sessions'[s] # sessions[s]
              /\ sessions[s].pc = (IF i = 1 THEN "ingestDelay" ELSE "auditDelay")]_vars
  /\ [][\A s \in Sessions :
          sessions'[s] # sessions[s] =>
            /\ sessions[s].pc = "ingestDelay" => pipelineStages'[0] = "complete"
            /\ sessions'[s].pc = "auditDelay" => pipelineStages'[1] = "complete"]_vars

\* The extraction of the second file is outstanding, after the extraction of
\* the first file failed.
C26_SecondExtractionIssued ==
  /\ sessions[1].pc = "extract"
  /\ sessions[1].idx = 2
  /\ sessions[1].answers = <<"throw">>

\* Invocation s ends in this step, its result applied without a throw.
EndsInSuccess(s) ==
  sessions[s].ended # "success" /\ sessions'[s].ended = "success"

C28_NodesChangeOnlyBySuccess ==
  /\ [][activeNodes' # activeNodes => \E s \in Sessions : EndsInSuccess(s)]_vars
  /\ [](\A n \in 1..6 :
          /\ activeNodes[n].label = InitialNodes[n].label
          /\ activeNodes[n].type = InitialNodes[n].type
          /\ activeNodes[n].location = InitialNodes[n].location
          /\ n # 3 => activeNodes[n].emissions = InitialNodes[n].emissions
          /\ n \notin {1, 2} => activeNodes[n].status = InitialNodes[n].status)

\* A first invocation ended in success and changed nodes 1 and 3; a second
\* one has purged and ended in error.
C28_ErrorAfterSuccess ==
  /\ sessions[1].ended = "success"
  /\ sessions[2].ended = "error"
  /\ activeNodes[1].status = "flagged"
  /\ activeNodes[3].emissions = "1250.0kg"
  /\ auditResult = Null

\* C29: when the only invocation made has ended in the catch block, no
\* animation toward 100 is running and the progress displayed is below 100.
C29_NoProgressTo100AfterError ==
  \A s \in Sessions :
    (nSessions = 1 /\ sessions[s].ended = "error") =>
      (~DrivenToDone /\ extractionProgress < Pct(DoneTarget))

\* The only invocation made has ended in the catch block after its
\* orchestration call was answered 2xx with a body the handler cannot use.
C29_ErrorAfterMalformedBody ==
  /\ nSessions = 1
  /\ sessions[1].ended = "error"
  /\ sessions[1].respKind = "malformed"
  /\ AnyAgentError

\* C30: the supplier_name of the orchestration request is the vendor name of
\* the last file whose extraction succeeded, and "Unknown Supplier" when no
\* extraction succeeded or that one names no vendor.
C30_SupplierNameOfLastSuccess ==
  \A s \in Sessions :
    sessions[s].pc = "orchestrate" =>
      LET ses == sessions[s]
          ok == Succeeded(ses)
          last == ok[Len(ok)]
      IN ses.request[1].supplier_name =
           IF ok = << >> \/ ses.answers[last] = "novendor"
             THEN "Unknown Supplier"
             ELSE Extraction(ses.files[last], ses.answers[last]).vendor_name

\* The request of two files, the first extraction naming a vendor and the
\* second, also successful, naming none.
C30_VendorThenNone ==
  \E s \in Sessions :
    /\ sessions[s].pc = "orchestrate"
    /\ sessions[s].answers = <<"vendor", "novendor">>
    /\ sessions[s].request[1].supplier_name = "Unknown Supplier"
====
